---- MODULE Spec2Model ----
(***************************************************************************)
(* A model of the `attempt` crate (src/src/lib.rs): the Attempt<F> builder *)
(* and the retry loop of Attempt::run.                                     *)
(*                                                                         *)
(* Scaling.  usize is modelled with UsizeBits bits, Duration as a whole    *)
(* number of ticks in 0..DURATION_MAX, and f32 as a binary float with a    *)
(* MantissaBits-bit significand and an unbounded exponent.  An f32 value   *)
(* is written <<num, den>> (den a power of two), standing for num/den.     *)
(***************************************************************************)
EXTENDS Integers, Sequences, FiniteSets, TLC

\* ------------------------------------------------------------------ bounds
UsizeBits == 4
DurationBits == 6
MantissaBits == 3
MaxOkAt == 3

USIZE_MAX == 2^UsizeBits - 1
DURATION_MAX == 2^DurationBits - 1
\* the cap on invocations explored when max_tries is None
MaxCalls == USIZE_MAX + 3

\* ------------------------------------------------------- Option and Result
None == <<>>
Some(x) == <<x>>
IsSome(o) == o # <<>>
Unwrap(o) == o[1]

Ok(v) == <<"Ok", v>>
Err(e) == <<"Err", e>>
IsOk(r) == r # <<>> /\ r[1] = "Ok"
IsErr(r) == r # <<>> /\ r[1] = "Err"

\* ------------------------------------------------------------ program constants
DEFAULT_DELAY_GROWTH == <<5, 4>>
DEFAULT_MAX_TRIES == 10

\* --------------------------------------------------------------- input sets
\* The caller's closure: its ok_at-th invocation returns Ok(ok_val) (0: never),
\* every other invocation returns Err; errs = "same" fails with "x" every time,
\* errs = "distinct" fails with a different value at every invocation.
Funcs == [ok_at : 0..MaxOkAt, ok_val : {"a", "b"}, errs : {"same", "distinct"}]
\* arguments of max_tries
TriesArgs == {0, 1, 2, 3, USIZE_MAX}
\* arguments of delay, in ticks
DelayArgs == {0, 1, 2^MantissaBits + 1, 2^(DurationBits - 2)}
\* arguments of delay_growth_magnitude: -1.0, 0.0, 0.5, 1.0, 1.25, 2.0
MagnitudeArgs == {<<-1, 1>>, <<0, 1>>, <<1, 2>>, <<1, 1>>, <<5, 4>>, <<2, 1>>}
\* the build: whether integer overflow checks are compiled in, and whether the
\* toolchain's float-to-Duration conversion rounds to nearest or truncates
Builds == [overflow_checks : BOOLEAN, round_nearest : BOOLEAN]

VARIABLES
    func,          \* the closure the caller passes to Attempt::to / infinitely
    build,         \* the build the program was compiled with
    self,          \* the Attempt value: func, delay, delay_growth_magnitude, max_tries
    last,          \* the last configuration call: [op, arg]
    entry,         \* "to" or "infinitely": which entry point built the Attempt
    pc,            \* the caller's position
    range_start,   \* RangeFrom::start of the `0..` iterator
    iteration,     \* the loop variable of run
    run_delay,     \* run's local `delay`
    err,           \* the Err value bound in the match arm
    result,        \* what run returned, None before
    panic,         \* the panic that ended the program, "" when none
    trace,         \* invocations and sleeps so far, in order
    evals,         \* how often run has evaluated `iteration + 1`
    fut,           \* the future returned by run_async: its Attempt and its locals
    other          \* another task on the scheduler that polls the future

vars == <<func, build, self, last, entry, pc, range_start, iteration, run_delay,
          err, result, panic, trace, evals, fut, other>>

\* ------------------------------------------------------------------ history
CallEv(r) == [kind |-> "call", res |-> r, dur |-> 0]
SleepEv(d) == [kind |-> "sleep", res |-> None, dur |-> d]
IsCall(ev) == ev.kind = "call"
IsSleep(ev) == ev.kind = "sleep"
Calls == SelectSeq(trace, IsCall)
Sleeps == SelectSeq(trace, IsSleep)
NumCalls == Len(Calls)
NumSleeps == Len(Sleeps)

\* run_async also records when an invocation is started and when a wait is
\* started: "call" and "sleep" mark the completion of the two
BeginEv == [kind |-> "begin", res |-> None, dur |-> 0]
SleepBeginEv(d) == [kind |-> "sleep_begin", res |-> None, dur |-> d]
IsCompletion(ev) == ev.kind \in {"call", "sleep"}

\* -------------------------------------------------------------- the closure
ErrValue(f, k) == IF f.errs = "same" THEN "x" ELSE "e" \o ToString(k)
\* the result of the k-th invocation of closure f
execute_fn(f, k) == IF f.ok_at = k THEN Ok(f.ok_val) ELSE Err(ErrValue(f, k))

\* ------------------------------------------------------ Duration::mul_f32
Abs(x) == IF x < 0 THEN -x ELSE x

RECURSIVE BitLen(_)
BitLen(x) == IF x = 0 THEN 0 ELSE 1 + BitLen(x \div 2)

\* x / u rounded to the nearest integer, ties to even
RoundHalfEven(x, u) ==
    LET q == x \div u
        r == x % u
    IN  IF 2 * r > u \/ (2 * r = u /\ q % 2 = 1) THEN q + 1 ELSE q

\* the float nearest to the whole number x >= 0: x kept to MantissaBits
\* significant bits
f32_round(x) ==
    LET e == BitLen(x) - MantissaBits
    IN  IF e <= 0 THEN x ELSE RoundHalfEven(x, 2^e) * 2^e

\* Duration::as_secs_f32: the duration as a float
as_secs_f32(d) == f32_round(d)

\* |rhs * d.as_secs_f32()| as a float, in units of 1/rhs[2] tick
f32_product(d, rhs) == f32_round(Abs(rhs[1]) * as_secs_f32(d))

\* Duration::from_secs_f32 of that product, in ticks
from_secs_f32(v, den, b) ==
    IF b.round_nearest THEN RoundHalfEven(v, den) ELSE v \div den

\* Duration::mul_f32 panics when the product is negative or overflows Duration
mul_f32_panics(d, rhs, b) ==
    \/ rhs[1] < 0 /\ f32_product(d, rhs) > 0
    \/ from_secs_f32(f32_product(d, rhs), rhs[2], b) > DURATION_MAX

\* Duration::mul_f32(d, rhs) when it does not panic
mul_f32(d, rhs, b) == from_secs_f32(f32_product(d, rhs), rhs[2], b)

\* --------------------------------------------------------- the builder
\* mutant of to: the default the crate's overview describes, a delay to start from
to_with_delay(f) ==
    [func |-> f,
     delay |-> Some(1),
     delay_growth_magnitude |-> DEFAULT_DELAY_GROWTH,
     max_tries |-> Some(DEFAULT_MAX_TRIES)]

to(f) ==
    [func |-> f,
     delay |-> None,
     delay_growth_magnitude |-> DEFAULT_DELAY_GROWTH,
     max_tries |-> Some(DEFAULT_MAX_TRIES)]

no_max_tries(a) == [a EXCEPT !.max_tries = None]

\* mutant of max_tries_assert: assert!(max_tries >= 0)
max_tries_assert_nonneg(n) == n >= 0

\* assert!(max_tries > 0)
max_tries_assert(n) == n > 0

max_tries(a, n) == [a EXCEPT !.max_tries = Some(n)]

\* mutant of no_delay: the whole delay configuration is reset, growth included
no_delay_reset_growth(a) ==
    [a EXCEPT !.delay = None, !.delay_growth_magnitude = DEFAULT_DELAY_GROWTH]

no_delay(a) == [a EXCEPT !.delay = None]

delay(a, d) == [a EXCEPT !.delay = Some(d)]

delay_growth_magnitude(a, m) == [a EXCEPT !.delay_growth_magnitude = m]

\* ------------------------------------------------------------- the loop
\* mutant of run_init_delay: Some(self.delay.unwrap_or_default())
run_init_delay_or_zero(a) == Some(IF IsSome(a.delay) THEN Unwrap(a.delay) ELSE 0)

\* let mut delay = self.delay;
run_init_delay(a) == a.delay

\* iteration + 1 in usize arithmetic without overflow checks
usize_add1(i) == (i + 1) % 2^UsizeBits

\* mutant of exhausted: iteration >= max_tries
exhausted_off_by_one(i, mt) == IsSome(mt) /\ i >= Unwrap(mt)

\* mutant of exhausted: self.max_tries.unwrap_or(DEFAULT_MAX_TRIES)
exhausted_default_cap(i, mt) ==
    usize_add1(i) >= (IF IsSome(mt) THEN Unwrap(mt) ELSE DEFAULT_MAX_TRIES)

\* if let Some(max_tries) = self.max_tries { if iteration + 1 >= max_tries ..
exhausted(i, mt) == IsSome(mt) /\ usize_add1(i) >= Unwrap(mt)

\* `iteration + 1` stands inside `if let Some(max_tries) = self.max_tries`
evaluates_plus1(mt) == IsSome(mt)

\* ----------------------------------------------------- the loop of run_async
\* let mut delay = self.delay;
async_init_delay(a) == a.delay

\* mutant of async_exhausted: one iteration counter for all executions
async_exhausted_shared_counter(i, mt) ==
    IsSome(mt) /\ usize_add1(iteration) >= Unwrap(mt)

\* mutant of async_exhausted: iteration >= max_tries
async_exhausted_off_by_one(i, mt) == IsSome(mt) /\ i >= Unwrap(mt)

\* if let Some(max_tries) = self.max_tries { if iteration + 1 >= max_tries ..
async_exhausted(i, mt) == IsSome(mt) /\ usize_add1(i) >= Unwrap(mt)

\* `iteration + 1` stands inside `if let Some(max_tries) = self.max_tries`
async_evaluates_plus1(mt) == IsSome(mt)

\* return Err(err)
async_propagate(e) == Err(e)

\* mutant of await_ready: the Sleep future is dropped without being awaited
await_ready_at_once(fired) == TRUE

\* tokio::time::sleep(epoch_delay).await resumes once the timer has fired
await_ready(fired) == fired

\* mutant of suspension_point: the wait is std::thread::sleep, no await
suspension_point_call_only(p) == p = "awaiting"

\* the two .await of run_async, where the task gives the thread back
suspension_point(p) == p \in {"awaiting", "sleeping"}

\* mutant of propagate: the first failure is kept and returned
propagate_first(e) == Err(Calls[1].res[2])

\* return Err(err)
propagate(e) == Err(e)

\* ------------------------------------------------------------------ Init
NoCall == [op |-> "", arg |-> <<>>]

\* before run_async is called there is no future
NoFut ==
    [pc |-> "none", self |-> None, range_start |-> 0, iteration |-> 0,
     delay |-> None, err |-> "", result |-> None, panic |-> "", fired |-> FALSE,
     evals |-> 0, trace |-> <<>>]

Init ==
    /\ func \in Funcs
    /\ build \in Builds
    /\ self = None
    /\ last = NoCall
    /\ entry = ""
    /\ pc = "start"
    /\ range_start = 0
    /\ iteration = 0
    /\ run_delay = None
    /\ err = ""
    /\ result = None
    /\ panic = ""
    /\ trace = <<>>
    /\ evals = 0
    /\ fut = NoFut
    /\ other = "ready"

RunVarsUnchanged == UNCHANGED <<range_start, iteration, run_delay, err, result, panic, trace>>

\* ------------------------------------------------------- configuration calls
\* Attempt::to(func)
Call_to ==
    /\ pc = "start"
    /\ self' = to(func)
    /\ entry' = "to"
    /\ last' = [op |-> "to", arg |-> <<>>]
    /\ pc' = "config"
    /\ UNCHANGED <<func, build>>
    /\ UNCHANGED <<evals, fut, other>>
    /\ RunVarsUnchanged

Call_no_max_tries ==
    /\ pc = "config"
    /\ self' = no_max_tries(self)
    /\ last' = [op |-> "no_max_tries", arg |-> <<>>]
    /\ UNCHANGED <<func, build, entry, pc>>
    /\ UNCHANGED <<evals, fut, other>>
    /\ RunVarsUnchanged

Call_max_tries(n) ==
    /\ pc = "config"
    /\ last' = [op |-> "max_tries", arg |-> <<n>>]
    /\ IF max_tries_assert(n)
       THEN /\ self' = max_tries(self, n)
            /\ UNCHANGED <<pc, panic>>
       ELSE /\ pc' = "panicked"
            /\ panic' = "assert"
            /\ UNCHANGED self
    /\ UNCHANGED <<func, build, entry, range_start, iteration, run_delay, err, result, trace>>
    /\ UNCHANGED <<evals, fut, other>>

Call_no_delay ==
    /\ pc = "config"
    /\ self' = no_delay(self)
    /\ last' = [op |-> "no_delay", arg |-> <<>>]
    /\ UNCHANGED <<func, build, entry, pc>>
    /\ UNCHANGED <<evals, fut, other>>
    /\ RunVarsUnchanged

Call_delay(d) ==
    /\ pc = "config"
    /\ self' = delay(self, d)
    /\ last' = [op |-> "delay", arg |-> <<d>>]
    /\ UNCHANGED <<func, build, entry, pc>>
    /\ UNCHANGED <<evals, fut, other>>
    /\ RunVarsUnchanged

Call_delay_growth_magnitude(m) ==
    /\ pc = "config"
    /\ self' = delay_growth_magnitude(self, m)
    /\ last' = [op |-> "delay_growth_magnitude", arg |-> m]
    /\ UNCHANGED <<func, build, entry, pc>>
    /\ UNCHANGED <<evals, fut, other>>
    /\ RunVarsUnchanged

\* ------------------------------------------------------- Attempt::run
\* let execute_fn = self.func; let mut delay = self.delay; for iteration in 0..
run_begin(a) ==
    /\ run_delay' = run_init_delay(a)
    /\ range_start' = 0
    /\ pc' = "for"

\* .run() on the configured Attempt
Call_run ==
    /\ pc = "config"
    /\ run_begin(self)
    /\ last' = [op |-> "run", arg |-> <<>>]
    /\ UNCHANGED <<func, build, self, entry, iteration, err, result, panic, trace>>
    /\ UNCHANGED <<evals, fut, other>>

\* Attempt::infinitely(func): Attempt::to(func).no_max_tries().run() ...
infinitely ==
    /\ pc = "start"
    /\ LET a == no_max_tries(to(func))
       IN  /\ self' = a
           /\ run_begin(a)
    /\ entry' = "infinitely"
    /\ last' = [op |-> "run", arg |-> <<>>]
    /\ UNCHANGED <<func, build, iteration, err, result, panic, trace>>
    /\ UNCHANGED <<evals, fut, other>>

\* RangeFrom::next: yields start and stores start + 1; the addition overflows
\* at the largest usize, which panics with overflow checks and wraps without
for_next ==
    /\ pc = "for"
    /\ IF range_start = USIZE_MAX /\ build.overflow_checks
       THEN /\ pc' = "panicked"
            /\ panic' = "overflow"
            /\ UNCHANGED <<iteration, range_start>>
       ELSE /\ iteration' = range_start
            /\ range_start' = usize_add1(range_start)
            /\ pc' = "call"
            /\ UNCHANGED panic
    /\ UNCHANGED <<func, build, self, last, entry, run_delay, err, result, trace>>
    /\ UNCHANGED <<evals, fut, other>>

\* match execute_fn() { Ok(res) => return Ok(res), Err(err) => ..
run_call ==
    /\ pc = "call"
    /\ NumCalls < MaxCalls
    /\ LET r == execute_fn(self.func, NumCalls + 1)
       IN  /\ trace' = Append(trace, CallEv(r))
           /\ IF IsOk(r)
              THEN /\ result' = Ok(r[2])
                   /\ pc' = "returned"
                   /\ UNCHANGED err
              ELSE /\ err' = r[2]
                   /\ pc' = "err"
                   /\ UNCHANGED result
    /\ UNCHANGED <<func, build, self, last, entry, range_start, iteration, run_delay, panic>>
    /\ UNCHANGED <<evals, fut, other>>

\* if let Some(max_tries) = self.max_tries { if iteration + 1 >= max_tries { return Err(err); } }
run_max_tries_check ==
    /\ pc = "err"
    /\ IF IsSome(self.max_tries) /\ iteration = USIZE_MAX /\ build.overflow_checks
       THEN /\ pc' = "panicked"
            /\ panic' = "overflow"
            /\ UNCHANGED result
       ELSE IF exhausted(iteration, self.max_tries)
       THEN /\ result' = propagate(err)
            /\ pc' = "returned"
            /\ UNCHANGED panic
       ELSE /\ pc' = "delay"
            /\ UNCHANGED <<result, panic>>
    /\ UNCHANGED <<func, build, self, last, entry, range_start, iteration, run_delay, err, trace>>
    /\ evals' = IF evaluates_plus1(self.max_tries) THEN evals + 1 ELSE evals
    /\ UNCHANGED <<fut, other>>

\* if let Some(epoch_delay) = delay { std::thread::sleep(epoch_delay);
run_sleep ==
    /\ pc = "delay"
    /\ IsSome(run_delay)
    /\ trace' = Append(trace, SleepEv(Unwrap(run_delay)))
    /\ pc' = "slept"
    /\ UNCHANGED <<func, build, self, last, entry, range_start, iteration, run_delay, err, result, panic>>
    /\ UNCHANGED <<evals, fut, other>>

\* delay = Some(epoch_delay.mul_f32(self.delay_growth_magnitude));
run_grow ==
    /\ pc = "slept"
    /\ IF mul_f32_panics(Unwrap(run_delay), self.delay_growth_magnitude, build)
       THEN /\ pc' = "panicked"
            /\ panic' = "mul_f32"
            /\ UNCHANGED run_delay
       ELSE /\ run_delay' = Some(mul_f32(Unwrap(run_delay), self.delay_growth_magnitude, build))
            /\ pc' = "for"
            /\ UNCHANGED panic
    /\ UNCHANGED <<func, build, self, last, entry, range_start, iteration, err, result, trace>>
    /\ UNCHANGED <<evals, fut, other>>

\* delay is None: no sleep, on to the next iteration
run_no_delay ==
    /\ pc = "delay"
    /\ run_delay = None
    /\ pc' = "for"
    /\ UNCHANGED <<func, build, self, last, entry, range_start, iteration, run_delay, err, result, panic, trace>>
    /\ UNCHANGED <<evals, fut, other>>

\* .unwrap_or_else(|_| unreachable!()) in Attempt::infinitely
infinitely_unwrap ==
    /\ pc = "returned"
    /\ entry = "infinitely"
    /\ IF IsOk(result)
       THEN /\ pc' = "done"
            /\ UNCHANGED panic
       ELSE /\ pc' = "panicked"
            /\ panic' = "unreachable"
    /\ UNCHANGED <<func, build, self, last, entry, range_start, iteration, run_delay, err, result, trace>>
    /\ UNCHANGED <<evals, fut, other>>

\* ------------------------------------------------------- Attempt::run_async
FutCalls == SelectSeq(fut.trace, IsCall)
FutSleeps == SelectSeq(fut.trace, IsSleep)
FutNumCalls == Len(FutCalls)
\* the invocations and waits the future has completed, in order
FutCompleted == SelectSeq(fut.trace, IsCompletion)

\* let execute_fn = self.func; let mut delay = self.delay; for iteration in 0..
run_async_begin(a) ==
    [NoFut EXCEPT !.pc = "for", !.self = a, !.delay = async_init_delay(a)]

\* .run_async() on the configured Attempt, in a task the caller then awaits
Call_run_async ==
    /\ pc = "config"
    /\ fut.pc = "none"
    /\ fut' = run_async_begin(self)
    /\ pc' = "awaiting_async"
    /\ last' = [op |-> "run_async", arg |-> <<>>]
    /\ UNCHANGED <<func, build, self, entry, other>>
    /\ RunVarsUnchanged
    /\ UNCHANGED evals

AsyncFrame ==
    UNCHANGED <<func, build, self, last, entry, pc, range_start, iteration,
                run_delay, err, result, panic, trace, evals, other>>

\* RangeFrom::next in run_async
async_for_next ==
    /\ fut.pc = "for"
    /\ IF fut.range_start = USIZE_MAX /\ build.overflow_checks
       THEN fut' = [fut EXCEPT !.pc = "panicked", !.panic = "overflow"]
       ELSE fut' = [fut EXCEPT !.pc = "call",
                               !.iteration = fut.range_start,
                               !.range_start = usize_add1(fut.range_start)]
    /\ AsyncFrame

\* execute_fn() builds the operation's future and .await starts polling it
async_call_begin ==
    /\ fut.pc = "call"
    /\ FutNumCalls < MaxCalls
    /\ fut' = [fut EXCEPT !.pc = "awaiting", !.trace = Append(@, BeginEv)]
    /\ AsyncFrame

\* the operation's future completes: match .. { Ok(res) => return Ok(res), Err(err) => ..
async_call_ready ==
    /\ fut.pc = "awaiting"
    /\ LET r == execute_fn(fut.self.func, FutNumCalls + 1)
       IN  IF IsOk(r)
           THEN fut' = [fut EXCEPT !.pc = "returned", !.result = Ok(r[2]),
                                   !.trace = Append(@, CallEv(r))]
           ELSE fut' = [fut EXCEPT !.pc = "err", !.err = r[2],
                                   !.trace = Append(@, CallEv(r))]
    /\ AsyncFrame

\* if let Some(max_tries) = self.max_tries { if iteration + 1 >= max_tries { return Err(err); } }
async_max_tries_check ==
    /\ fut.pc = "err"
    /\ LET n == IF async_evaluates_plus1(fut.self.max_tries)
                THEN fut.evals + 1 ELSE fut.evals
       IN  IF IsSome(fut.self.max_tries) /\ fut.iteration = USIZE_MAX
              /\ build.overflow_checks
           THEN fut' = [fut EXCEPT !.pc = "panicked", !.panic = "overflow", !.evals = n]
           ELSE IF async_exhausted(fut.iteration, fut.self.max_tries)
           THEN fut' = [fut EXCEPT !.pc = "returned", !.evals = n,
                                   !.result = async_propagate(fut.err)]
           ELSE fut' = [fut EXCEPT !.pc = "delay", !.evals = n]
    /\ AsyncFrame

\* if let Some(epoch_delay) = delay { tokio::time::sleep(epoch_delay) ..: the
\* timer is armed
async_sleep_begin ==
    /\ fut.pc = "delay"
    /\ IsSome(fut.delay)
    /\ fut' = [fut EXCEPT !.pc = "sleeping", !.fired = FALSE,
                          !.trace = Append(@, SleepBeginEv(Unwrap(fut.delay)))]
    /\ AsyncFrame

\* the runtime's timer fires when epoch_delay has elapsed
timer_elapsed ==
    /\ fut.pc = "sleeping"
    /\ ~fut.fired
    /\ fut' = [fut EXCEPT !.fired = TRUE,
                          !.trace = Append(@, SleepEv(Unwrap(fut.delay)))]
    /\ AsyncFrame

\* .await; delay = Some(epoch_delay.mul_f32(self.delay_growth_magnitude));
async_grow ==
    /\ fut.pc = "sleeping"
    /\ await_ready(fut.fired)
    /\ IF mul_f32_panics(Unwrap(fut.delay), fut.self.delay_growth_magnitude, build)
       THEN fut' = [fut EXCEPT !.pc = "panicked", !.panic = "mul_f32"]
       ELSE fut' = [fut EXCEPT !.pc = "for",
                               !.delay = Some(mul_f32(Unwrap(fut.delay),
                                              fut.self.delay_growth_magnitude, build))]
    /\ AsyncFrame

\* delay is None: no sleep, on to the next iteration
async_no_delay ==
    /\ fut.pc = "delay"
    /\ fut.delay = None
    /\ fut' = [fut EXCEPT !.pc = "for"]
    /\ AsyncFrame

\* the future is over: it returned, or its task panicked
FutEnded == fut.pc \in {"returned", "panicked"}

\* the caller's await of the task completes
async_join ==
    /\ pc = "awaiting_async"
    /\ FutEnded
    /\ pc' = "joined"
    /\ UNCHANGED <<func, build, self, last, entry, evals, fut, other>>
    /\ RunVarsUnchanged

\* .run() on an Attempt built by the same chain, after the task was joined
Call_run_joined ==
    /\ pc = "joined"
    /\ run_begin(self)
    /\ last' = [op |-> "run", arg |-> <<>>]
    /\ UNCHANGED <<func, build, self, entry, iteration, err, result, panic, trace>>
    /\ UNCHANGED <<evals, fut, other>>

\* the scheduler's thread is free for another task: the caller awaits the
\* future and the future is parked at one of its .await
ThreadYielded == pc = "awaiting_async" /\ suspension_point(fut.pc)

\* the other task is polled and runs up to its next await, or to its end
other_step ==
    /\ ThreadYielded
    /\ other # "complete"
    /\ other' = IF other = "ready" THEN "running" ELSE "complete"
    /\ UNCHANGED <<func, build, self, last, entry, pc, evals, fut>>
    /\ RunVarsUnchanged

Next ==
    \/ Call_to
    \/ infinitely
    \/ Call_no_max_tries
    \/ \E n \in TriesArgs : Call_max_tries(n)
    \/ Call_no_delay
    \/ \E d \in DelayArgs : Call_delay(d)
    \/ \E m \in MagnitudeArgs : Call_delay_growth_magnitude(m)
    \/ Call_run
    \/ for_next
    \/ run_call
    \/ run_max_tries_check
    \/ run_sleep
    \/ run_grow
    \/ run_no_delay
    \/ infinitely_unwrap
    \/ Call_run_async
    \/ async_for_next
    \/ async_call_begin
    \/ async_call_ready
    \/ async_max_tries_check
    \/ async_sleep_begin
    \/ timer_elapsed
    \/ async_grow
    \/ async_no_delay
    \/ async_join
    \/ Call_run_joined
    \/ other_step

Spec == Init /\ [][Next]_vars

\* ------------------------------------------------ two concurrent executions
\* arguments of the configuration calls that precede two concurrent executions
PairTriesArgs == {1, 2, 3}
PairDelayArgs == {1, 2^MantissaBits + 1}
PairMagnitudeArgs == {<<-1, 1>>, <<2, 1>>}

\* .run_async() on a second Attempt built by the same chain, in a task of its
\* own that nobody waits for
Spawn_run_async ==
    /\ pc = "config"
    /\ fut.pc = "none"
    /\ fut' = run_async_begin(self)
    /\ pc' = "spawned"
    /\ last' = [op |-> "run_async", arg |-> <<>>]
    /\ UNCHANGED <<func, build, self, entry, other>>
    /\ RunVarsUnchanged
    /\ UNCHANGED evals

\* .run() on the first Attempt, on the caller's thread, while the task runs
Call_run_spawned ==
    /\ pc = "spawned"
    /\ run_begin(self)
    /\ last' = [op |-> "run", arg |-> <<>>]
    /\ UNCHANGED <<func, build, self, entry, iteration, err, result, panic, trace>>
    /\ UNCHANGED <<evals, fut, other>>

NextPair ==
    \/ Call_to
    \/ \E n \in PairTriesArgs : Call_max_tries(n)
    \/ \E d \in PairDelayArgs : Call_delay(d)
    \/ \E m \in PairMagnitudeArgs : Call_delay_growth_magnitude(m)
    \/ Spawn_run_async
    \/ Call_run_spawned
    \/ for_next
    \/ run_call
    \/ run_max_tries_check
    \/ run_sleep
    \/ run_grow
    \/ run_no_delay
    \/ async_for_next
    \/ async_call_begin
    \/ async_call_ready
    \/ async_max_tries_check
    \/ async_sleep_begin
    \/ timer_elapsed
    \/ async_grow
    \/ async_no_delay

SpecPair == Init /\ [][NextPair]_vars

\* ------------------------------------------------- positions of an execution
\* run (or infinitely's run) has been entered
InRun ==
    \/ pc \in {"for", "call", "err", "delay", "slept", "returned", "done"}
    \/ pc = "panicked" /\ panic # "assert"

\* run returned a value to its caller
RunReturned == result # None

\* run ended in a panic of its own loop instead of returning
RunPanicked == pc = "panicked" /\ panic \in {"mul_f32", "overflow"}

\* run is over, one way or the other
RunEnded == RunReturned \/ RunPanicked

\* ------------------------------------------------------------------ claims

\* C1: with max_tries = Some(n), n >= 1, whatever the delay and the growth factor,
\* run on an operation that fails on every invocation invokes it exactly n times
\* (never more, and it does not stop short) and then returns a failure: the
\* failure of the n-th invocation.
C1_AlwaysFailingInvokedNTimes ==
    (InRun /\ IsSome(self.max_tries) /\ Unwrap(self.max_tries) >= 1
        /\ self.func.ok_at = 0)
    => /\ NumCalls <= Unwrap(self.max_tries)
       /\ ~RunPanicked
       /\ RunReturned =>
            /\ IsErr(result)
            /\ NumCalls = Unwrap(self.max_tries)
            /\ result = Calls[NumCalls].res

\* C2: with max_tries = Some(n) and an operation whose first k-1 invocations fail
\* and whose k-th succeeds (1 <= k <= n), run invokes it exactly k times, returns
\* the k-th invocation's success value, and nothing (no invocation, no wait)
\* follows that success.
C2_SucceedsOnKthInvocation ==
    (InRun /\ IsSome(self.max_tries) /\ self.func.ok_at >= 1
        /\ self.func.ok_at <= Unwrap(self.max_tries))
    => /\ NumCalls <= self.func.ok_at
       /\ ~RunPanicked
       /\ NumCalls = self.func.ok_at =>
            /\ trace[Len(trace)] = CallEv(Ok(self.func.ok_val))
            /\ result = Ok(self.func.ok_val)
       /\ RunReturned => NumCalls = self.func.ok_at

\* C3: max_tries(0) fails its assertion at configuration time, whatever the other
\* fields are and before anything was executed; so every Attempt that reaches
\* run has max_tries None or Some(n) with n >= 1.
C3_MaxTriesZeroRejected ==
    /\ (last.op = "max_tries" /\ last.arg = <<0>>) =>
            /\ pc = "panicked"
            /\ panic = "assert"
            /\ trace = <<>>
            /\ result = None
    /\ InRun => (self.max_tries = None \/ Unwrap(self.max_tries) >= 1)

\* C3 witness: the assertion failed on an Attempt whose other fields were all
\* changed from their defaults.
C3_Witness ==
    /\ pc = "panicked"
    /\ panic = "assert"
    /\ last = [op |-> "max_tries", arg |-> <<0>>]
    /\ IsSome(self.delay)
    /\ self.delay_growth_magnitude = <<2, 1>>
    /\ self.max_tries = None

\* C4: when a bounded execution ends in exhaustion, the failure returned is the
\* n-th invocation's failure value, unchanged; when every invocation fails with a
\* different value, no earlier invocation's value is returned.
C4_LastFailureSurfaced ==
    (RunReturned /\ IsErr(result) /\ IsSome(self.max_tries))
    => /\ NumCalls = Unwrap(self.max_tries)
       /\ result = Calls[NumCalls].res
       /\ self.func.errs = "distinct" =>
            \A i \in 1..(NumCalls - 1) : Calls[i].res # result

\* C4 witness: exhaustion after three or more invocations that failed with
\* different values, with waits in between.
C4_Witness ==
    /\ RunReturned
    /\ IsErr(result)
    /\ NumCalls >= 3
    /\ self.func.errs = "distinct"
    /\ NumSleeps >= 2

\* C5: with max_tries None (as in Attempt::infinitely) the execution never
\* returns a failure, whatever the operation's outcomes: what it returns is the
\* success of its last invocation, and the unreachable!() is never reached.
C5_UnboundedNeverFails ==
    /\ entry = "infinitely" => self.max_tries = None
    /\ (InRun /\ self.max_tries = None) =>
            /\ ~IsErr(result)
            /\ ~(pc = "panicked" /\ panic = "unreachable")
            /\ RunReturned =>
                 /\ IsOk(result)
                 /\ trace[Len(trace)] = CallEv(result)

\* C5 witness: Attempt::infinitely still retrying after more failures than the
\* default cap on tries.
C5_Witness ==
    /\ entry = "infinitely"
    /\ pc = "delay"
    /\ NumCalls > DEFAULT_MAX_TRIES

\* C6: with max_tries None and an operation that fails finitely often and then
\* succeeds, the execution ends, and it ends by returning that first success.
C6_UnboundedEventuallySucceeds ==
    (InRun /\ self.max_tries = None /\ self.func.ok_at >= 1)
    => /\ ~RunPanicked
       /\ RunReturned =>
            /\ result = Ok(self.func.ok_val)
            /\ NumCalls = self.func.ok_at

\* C7: with delay Some(D), growth factor g, max_tries Some(n), n >= 2, and an
\* operation that always fails: invocations and waits alternate, the execution
\* ends after exactly n-1 waits with an invocation last, the first wait lasts D
\* and each later wait lasts g times the wait before it (so the i-th lasts
\* D*g^(i-1)).
C7_GeometricWaits ==
    (InRun /\ IsSome(self.delay) /\ IsSome(self.max_tries)
        /\ Unwrap(self.max_tries) >= 2 /\ self.func.ok_at = 0)
    => /\ NumSleeps <= Unwrap(self.max_tries) - 1
       /\ \A j \in 1..Len(trace) :
            trace[j].kind = (IF j % 2 = 1 THEN "call" ELSE "sleep")
       /\ RunEnded =>
            /\ NumSleeps = Unwrap(self.max_tries) - 1
            /\ trace[Len(trace)].kind = "call"
       /\ NumSleeps >= 1 => Sleeps[1].dur = Unwrap(self.delay)
       /\ \A i \in 1..(NumSleeps - 1) :
            Sleeps[i + 1].dur * self.delay_growth_magnitude[2]
                = Sleeps[i].dur * self.delay_growth_magnitude[1]

\* C8: when the configured delay is None, no wait ever occurs and run's current
\* delay stays None, whatever max_tries, the growth factor and the outcomes are.
C8_NoDelayNoWait ==
    (InRun /\ self.delay = None)
    => /\ NumSleeps = 0
       /\ run_delay = None
       /\ pc # "slept"

\* C8 witness: an unbounded execution with no delay and growth factor 2.0 going
\* into its fourth invocation.
C8_Witness ==
    /\ pc = "call"
    /\ self.delay = None
    /\ self.delay_growth_magnitude = <<2, 1>>
    /\ self.max_tries = None
    /\ NumCalls = 3

\* C9: with max_tries = Some(1) the operation is invoked at most once, and when
\* it fails the failure is returned at once: no wait, no growth of the delay, no
\* second invocation, whatever delay and growth factor are configured.
C9_SingleTryNoWait ==
    (InRun /\ self.max_tries = Some(1))
    => /\ NumCalls <= 1
       /\ NumSleeps = 0
       /\ pc \notin {"delay", "slept", "panicked"}
       /\ pc = "for" => NumCalls = 0
       /\ RunReturned => result = Calls[1].res

\* C9 witness: the single try failed and the failure was returned, with a
\* positive delay and a negative growth factor configured.
C9_Witness ==
    /\ pc = "returned"
    /\ IsErr(result)
    /\ self.max_tries = Some(1)
    /\ NumCalls = 1
    /\ IsSome(self.delay)
    /\ Unwrap(self.delay) > 0
    /\ self.delay_growth_magnitude = <<-1, 1>>

C11_DefaultDelayStartsAtHalfSecond ==
    /\ last.op = "to" =>
            /\ self.max_tries = Some(10)
            /\ IsSome(self.delay)
            /\ Unwrap(self.delay) > 0
    /\ (InRun /\ entry = "to" /\ self = to(self.func) /\ NumCalls >= 2) =>
            /\ NumSleeps >= 1
            /\ Sleeps[1].dur > 0
            /\ \A i \in 1..(NumSleeps - 1) : Sleeps[i + 1].dur > Sleeps[i].dur

\* C12: delay_growth_magnitude accepts every factor, and an execution with a
\* delay and a non-positive factor only has degenerate waits (none longer than
\* the one before): it ends in success or in exhaustion, never in another
\* failure.
C12_NonPositiveFactorOnlyDegenerate ==
    /\ last.op = "delay_growth_magnitude" =>
            (pc = "config" /\ self.delay_growth_magnitude = last.arg)
    /\ (InRun /\ IsSome(self.delay) /\ self.delay_growth_magnitude[1] <= 0) =>
            /\ ~RunPanicked
            /\ \A i \in 1..(NumSleeps - 1) : Sleeps[i + 1].dur <= Sleeps[i].dur

\* C14: with max_tries = Some(n) and any outcomes, the execution returns (with
\* success or exhaustion) after at most n invocations and at most n-1 waits: it
\* never exceeds those numbers and never ends otherwise than by returning.
C14_BoundedExecutionReturns ==
    (InRun /\ IsSome(self.max_tries)) =>
        /\ NumCalls <= Unwrap(self.max_tries)
        /\ NumSleeps <= Unwrap(self.max_tries) - 1
        /\ pc \in {"for", "call", "err", "delay", "slept", "returned"}
        /\ (pc = "returned") = RunReturned

\* C18: each configuration call changes exactly its own field and leaves the
\* other fields and the operation as they were, so in a chain the last call on a
\* field decides its value; run takes over exactly the configured values and the
\* Attempt does not change during execution.
C18_ConfigurationFrame ==
    [][/\ (pc = "config" /\ last'.op = "no_max_tries") =>
            /\ self'.max_tries = None
            /\ self'.delay = self.delay
            /\ self'.delay_growth_magnitude = self.delay_growth_magnitude
            /\ self'.func = self.func
       /\ (pc = "config" /\ last'.op = "max_tries" /\ last'.arg[1] > 0) =>
            /\ self'.max_tries = last'.arg
            /\ self'.delay = self.delay
            /\ self'.delay_growth_magnitude = self.delay_growth_magnitude
            /\ self'.func = self.func
       /\ (pc = "config" /\ last'.op = "no_delay") =>
            /\ self'.delay = None
            /\ self'.max_tries = self.max_tries
            /\ self'.delay_growth_magnitude = self.delay_growth_magnitude
            /\ self'.func = self.func
       /\ (pc = "config" /\ last'.op = "delay") =>
            /\ self'.delay = last'.arg
            /\ self'.max_tries = self.max_tries
            /\ self'.delay_growth_magnitude = self.delay_growth_magnitude
            /\ self'.func = self.func
       /\ (pc = "config" /\ last'.op = "delay_growth_magnitude") =>
            /\ self'.delay_growth_magnitude = last'.arg
            /\ self'.max_tries = self.max_tries
            /\ self'.delay = self.delay
            /\ self'.func = self.func
       /\ (pc = "config" /\ last'.op = "run") =>
            /\ self' = self
            /\ run_delay' = self.delay
       /\ (InRun /\ ~RunEnded) => self' = self
      ]_vars

\* C18 witness: after a chain that set every field, ending with no_delay, the
\* other two fields still hold what the earlier calls gave them.
C18_Witness ==
    /\ pc = "config"
    /\ last.op = "no_delay"
    /\ self.delay = None
    /\ self.max_tries = Some(2)
    /\ self.delay_growth_magnitude = <<1, 2>>

\* C19: with a delay and a growth factor >= 1, no wait of an execution is
\* shorter than the wait before it.
C19_WaitsNonDecreasing ==
    (InRun /\ IsSome(self.delay)
        /\ self.delay_growth_magnitude[1] >= self.delay_growth_magnitude[2])
    => \A i \in 1..(NumSleeps - 1) : Sleeps[i + 1].dur >= Sleeps[i].dur

\* C13: attempts of one execution are strictly sequential. In run_async an
\* invocation other than the first begins only directly after the wait that
\* followed the failed invocation before it has elapsed in full (directly after
\* that failed invocation when no delay is configured), every invocation
\* completes before anything else happens, and at most one is in progress; in
\* run every invocation after the first follows a failed one and its wait.
C13_StrictlySequential ==
    /\ \A j \in 1..Len(fut.trace) :
        LET ev == fut.trace[j]
        IN  /\ ev.kind = "begin" =>
                \/ j = 1
                \/ /\ fut.self.delay = None
                   /\ fut.trace[j - 1].kind = "call"
                   /\ IsErr(fut.trace[j - 1].res)
                \/ /\ IsSome(fut.self.delay)
                   /\ j >= 5
                   /\ fut.trace[j - 1].kind = "sleep"
                   /\ fut.trace[j - 2] = SleepBeginEv(fut.trace[j - 1].dur)
                   /\ fut.trace[j - 3].kind = "call"
                   /\ IsErr(fut.trace[j - 3].res)
            /\ ev.kind = "call" => (j > 1 /\ fut.trace[j - 1].kind = "begin")
            /\ ev.kind = "sleep" => (j > 1 /\ fut.trace[j - 1].kind = "sleep_begin")
    /\ Len(SelectSeq(fut.trace, LAMBDA ev : ev.kind = "begin")) - FutNumCalls
            = (IF fut.pc = "awaiting" THEN 1 ELSE 0)
    /\ \A j \in 2..Len(trace) :
        trace[j].kind = "call" =>
            IF IsSome(self.delay)
            THEN j >= 3 /\ trace[j - 1].kind = "sleep" /\ IsErr(trace[j - 2].res)
            ELSE IsErr(trace[j - 1].res)

\* C13 witness: the second invocation of a run_async execution with a positive
\* delay is in progress.
C13_Witness ==
    /\ fut.pc = "awaiting"
    /\ FutNumCalls = 1
    /\ IsSome(fut.self.delay)
    /\ Unwrap(fut.self.delay) > 0
    /\ Len(fut.trace) = 5

\* C15: run and run_async of the same configuration with the same outcomes of
\* the operation perform the same invocations and the same waits in the same
\* order and end the same way: at any point run has done what run_async did up
\* to there, and once both are over their histories and results are equal.
C15_SameAlgorithm ==
    (InRun /\ fut.pc # "none" /\ fut.self = self) =>
        /\ Len(trace) <= Len(FutCompleted)
        /\ trace = SubSeq(FutCompleted, 1, Len(trace))
        /\ (RunEnded /\ FutEnded) =>
                /\ trace = FutCompleted
                /\ result = fut.result
                /\ panic = fut.panic
        /\ RunEnded => FutEnded

\* C15 witness: both executions of a three-try configuration with a delay are
\* over, each after three invocations and two waits.
C15_Witness ==
    /\ pc = "returned"
    /\ fut.pc = "returned"
    /\ fut.self = self
    /\ self.max_tries = Some(3)
    /\ IsErr(result)
    /\ NumCalls = 3
    /\ NumSleeps = 2
    /\ Sleeps[2].dur > Sleeps[1].dur

\* C16: while a run_async execution waits out a positive delay, another task on
\* the same scheduler that is not yet complete can take a step; while run is
\* executing, its waits included, no other task can.
C16_WaitSuspendsOnlyOwnTask ==
    /\ (pc = "awaiting_async" /\ fut.pc = "sleeping" /\ ~fut.fired
            /\ Unwrap(fut.delay) > 0 /\ other # "complete")
        => ENABLED other_step
    /\ (InRun /\ ~RunEnded) => ~ENABLED other_step

\* C16 witness: the other task has run to completion while the first wait of a
\* run_async execution is still pending.
C16_Witness ==
    /\ fut.pc = "sleeping"
    /\ ~fut.fired
    /\ Unwrap(fut.delay) > 0
    /\ FutNumCalls = 1
    /\ other = "complete"

\* C20: with max_tries = Some(n), at every invocation the iteration counter is
\* below n and equals the number of failed invocations so far; where
\* iteration + 1 is evaluated it is at most n and does not overflow, also for n
\* the largest usize; with max_tries = None it is never evaluated. The same in
\* run and in run_async.
C20_IterationCounter ==
    /\ (pc = "call" /\ IsSome(self.max_tries)) =>
            /\ iteration < Unwrap(self.max_tries)
            /\ iteration = NumCalls
            /\ \A j \in 1..NumCalls : IsErr(Calls[j].res)
    /\ (pc = "err" /\ IsSome(self.max_tries)) =>
            /\ iteration < USIZE_MAX
            /\ iteration + 1 <= Unwrap(self.max_tries)
            /\ evals = iteration
    /\ (pc = "panicked" /\ panic = "overflow") => self.max_tries = None
    /\ (InRun /\ self.max_tries = None) => evals = 0
    /\ (fut.pc \in {"call", "awaiting"} /\ IsSome(fut.self.max_tries)) =>
            /\ fut.iteration < Unwrap(fut.self.max_tries)
            /\ fut.iteration = FutNumCalls
            /\ \A j \in 1..FutNumCalls : IsErr(FutCalls[j].res)
    /\ (fut.pc = "err" /\ IsSome(fut.self.max_tries)) =>
            /\ fut.iteration < USIZE_MAX
            /\ fut.iteration + 1 <= Unwrap(fut.self.max_tries)
            /\ fut.evals = fut.iteration
    /\ (fut.pc = "panicked" /\ fut.panic = "overflow") => fut.self.max_tries = None
    /\ (fut.pc # "none" /\ fut.self.max_tries = None) => fut.evals = 0

\* C20 witness: with n the largest usize, run_async has returned the last
\* failure after evaluating iteration + 1 n times, and run is about to evaluate
\* it for the n-th time.
C20_Witness ==
    /\ pc = "err"
    /\ self.max_tries = Some(USIZE_MAX)
    /\ iteration = USIZE_MAX - 1
    /\ fut.pc = "returned"
    /\ fut.self.max_tries = Some(USIZE_MAX)
    /\ fut.evals = USIZE_MAX
    /\ IsErr(fut.result)

\* C17: two concurrent executions of two Attempts share no state. Under every
\* interleaving a step that changes one execution's iteration counter or
\* current delay is a step of that execution and leaves the other execution's
\* counter, delay and history as they are; and the two executions, the Attempts
\* being configured alike, each end with the history and the result of that
\* configuration run alone, which are the same for both.
C17_NoSharedState ==
    [][/\ (fut.pc # "none" /\ fut' # fut) =>
            UNCHANGED <<range_start, iteration, run_delay, err, result, panic,
                        trace, self>>
       /\ <<range_start, iteration, run_delay, trace>>'
                # <<range_start, iteration, run_delay, trace>> => fut' = fut
       /\ (InRun' /\ fut'.pc # "none") =>
            /\ fut'.self = self'
            /\ (RunEnded' /\ fut'.pc \in {"returned", "panicked"}) =>
                    /\ trace' = SelectSeq(fut'.trace, IsCompletion)
                    /\ result' = fut'.result
                    /\ panic' = fut'.panic
            /\ \A j \in 1..Len(trace') :
                    j <= Len(SelectSeq(fut'.trace, IsCompletion))
                        => trace'[j] = SelectSeq(fut'.trace, IsCompletion)[j]
      ]_vars

\* C17 witness: two concurrent executions, both past their first wait, stand
\* at different iterations with different current delays.
C17_Witness ==
    /\ pc = "call"
    /\ fut.pc = "sleeping"
    /\ last.op = "run"
    /\ iteration = 1
    /\ fut.iteration = 2
    /\ IsSome(run_delay)
    /\ fut.delay # run_delay

====
